---- MODULE Spec2Model ----
(***************************************************************************)
(* Model of the scene-change-detection data pipeline:                      *)
(*   - AutoshotDataset (src/autoshot_dataloader.py): window generation     *)
(*     around shot boundaries and per-frame label assignment;              *)
(*   - VideoReader (src/utils/video_reader.py): position-indexed frame     *)
(*     access with a cache.                                                *)
(* Python lists are sequences (1-indexed here, 0-indexed in the source).   *)
(***************************************************************************)
EXTENDS Integers, Sequences, FiniteSets, TLC

VARIABLES
    sequence_length,      \* AutoshotDataset.sequence_length
    random_offset_range,  \* AutoshotDataset.random_offset_range
    valid_videos,         \* AutoshotDataset.valid_videos: list of video records
    sequences,            \* AutoshotDataset.sequences: list of sequence_info
    pc,                   \* where the dataset is: "generate" | "ready"
    vi,                   \* _generate_sequences: index of the video being processed
    bi,                   \* _generate_sequences: index of the boundary being processed
    trial,                \* _generate_sequences: iteration of `for _ in range(3)`
    trials,               \* log of the loop bodies run: <<video, boundary, offset>>
    labelled,             \* last _get_scene_labels call: its argument and result
    video,                \* the file behind a VideoReader, as the decoder sees it
    reader,               \* the VideoReader object: _cap, _total_frames, _fps, _frame_cache
    result,               \* last VideoReader call: operation, arguments, outcome
    workers               \* concurrent callers of VideoReader, each with its call in progress

vars == <<sequence_length, random_offset_range, valid_videos, sequences,
          pc, vi, bi, trial, trials, labelled, video, reader, result, workers>>

\* the callers of a reader: the dataset and the workers
datasetVars == <<sequence_length, random_offset_range, valid_videos, sequences,
                 pc, vi, bi, trial, trials, labelled, workers>>
readerVars == <<video, reader, result>>

----------------------------------------------------------------------------
(* Bounds of the enumerated inputs *)

MaxFrames == 5      \* total_frames and boundary 'from' range over 0..MaxFrames
MaxSeqLen == 4      \* sequence_length ranges over 1..MaxSeqLen
MaxJitter == 2      \* random_offset_range ranges over 0..MaxJitter
MaxGap == 2         \* to - from ranges over -1..MaxGap (-1: malformed annotation)
MaxLen == 3         \* length of an arbitrary list of frame positions
MaxVideoFrames == 3 \* frame count of a decoded file ranges over 1..MaxVideoFrames

----------------------------------------------------------------------------
(* Python helpers *)

Max(a, b) == IF a >= b THEN a ELSE b
Min(a, b) == IF a <= b THEN a ELSE b

\* list(range(a, b)) for a step of 1
RangeList(a, b) == [k \in 1..Max(0, b - a) |-> a + k - 1]

----------------------------------------------------------------------------
(* VideoReader (src/utils/video_reader.py) *)

None == -1          \* Python's None in _total_frames and _fps
FPS == 25           \* CAP_PROP_FPS of the modelled files (positive)

\* the file: what cv2.VideoCapture reports for it and which reads fail
VideoFile(n, bad, ok) == [frame_count |-> n, unreadable |-> bad, openable |-> ok]

VideoFiles ==
    {VideoFile(n, bad, TRUE) :
        n \in 1..MaxVideoFrames,
        bad \in {{}} \cup {{q} : q \in 0..(MaxVideoFrames - 1)}}
    \cup {VideoFile(1, {}, FALSE)}

\* the calls a method has made on cv2 so far: VideoCapture(), release(), set(), read()
NoLog == [acquired |-> 0, released |-> 0, seeks |-> 0, reads |-> 0]

\* lines 37-40: no capture, no metadata, empty cache
NewReader == [cap |-> "None", total_frames |-> None, fps |-> None,
              frame_cache |-> <<>>, pos |-> 0, log |-> NoLog]

\* an operation's outcome: the reader it leaves, the exception raised, the value
Outcome(r, exc, value) == [reader |-> r, exc |-> exc, value |-> value]

\* lines 51-59 without the `if self._cap is None` guard: a capture on every call
openAlways(r) ==
    IF ~video.openable
    THEN Outcome([r EXCEPT !.cap = "unopened", !.log.acquired = @ + 1],
                 "RuntimeError", None)
    ELSE Outcome([r EXCEPT !.cap = "opened",
                           !.log.acquired = @ + 1,
                           !.pos = 0,
                           !.total_frames = video.frame_count,
                           !.fps = FPS], "none", None)

\* lines 51-59; a capture that fails to open stays in _cap
open(r) ==
    IF r.cap = "None"
    THEN IF ~video.openable
         THEN Outcome([r EXCEPT !.cap = "unopened", !.log.acquired = @ + 1],
                      "RuntimeError", None)
         ELSE Outcome([r EXCEPT !.cap = "opened",
                                !.log.acquired = @ + 1,
                                !.pos = 0,
                                !.total_frames = video.frame_count,
                                !.fps = FPS], "none", None)
    ELSE Outcome(r, "none", None)

\* close() without line 65: the cache survives
closeKeepingCache(r) ==
    Outcome([r EXCEPT !.cap = "None",
                      !.log.released = IF r.cap # "None" THEN @ + 1 ELSE @],
            "none", None)

\* lines 61-66
close(r) ==
    Outcome([r EXCEPT !.cap = "None",
                      !.log.released = IF r.cap # "None" THEN @ + 1 ELSE @,
                      !.frame_cache = <<>>], "none", None)

\* lines 42-45
enter(r) == open(r)

\* lines 47-49
exit(r) == close(r)

\* lines 68-73 opening whenever no capture is held
total_framesEnsureOpen(r) ==
    IF r.cap = "None"
    THEN LET o == open(r)
         IN  IF o.exc # "none" THEN o
             ELSE Outcome(o.reader, "none", o.reader.total_frames)
    ELSE Outcome(r, "none", r.total_frames)

\* lines 68-73
total_frames(r) ==
    IF r.total_frames = None
    THEN LET o == open(r)
         IN  IF o.exc # "none" THEN o
             ELSE Outcome(o.reader, "none", o.reader.total_frames)
    ELSE Outcome(r, "none", r.total_frames)

\* lines 75-80
fps(r) ==
    IF r.fps = None
    THEN LET o == open(r)
         IN  IF o.exc # "none" THEN o
             ELSE Outcome(o.reader, "none", o.reader.fps)
    ELSE Outcome(r, "none", r.fps)

\* lines 8-13; the pixels are named by the stream position they were decoded at,
\* the timestamp position / fps by its two operands.  id tells objects apart
\* (Python's `is`).
FrameData(id, frame, position, frames_per_second) ==
    [id |-> id, frame |-> frame, position |-> position,
     timestamp |-> <<position, frames_per_second>>]

\* line 109 makes a new object: not the one the cache holds for the position, which
\* is the only other FrameData of that position the reader can hand out
NewId(r, position) ==
    IF position \in DOMAIN r.frame_cache THEN r.frame_cache[position].id + 1 ELSE 0

\* line 102 seeking one frame late
SeekOneLate(r, position) ==
    [r EXCEPT !.pos = position + 1, !.log.seeks = @ + 1]

\* line 102: set(CAP_PROP_POS_FRAMES, position) moves the stream of the capture
Seek(r, position) ==
    [r EXCEPT !.pos = position, !.log.seeks = @ + 1]

\* line 103: read() decodes the frame at the stream position and moves past it
Read(r) ==
    IF r.pos \in 0..(video.frame_count - 1) /\ r.pos \notin video.unreadable
    THEN [ret |-> TRUE, frame |-> r.pos,
          reader |-> [r EXCEPT !.pos = @ + 1, !.log.reads = @ + 1]]
    ELSE [ret |-> FALSE, frame |-> None,
          reader |-> [r EXCEPT !.log.reads = @ + 1]]

\* lines 102-103, nothing in between
Decode(r, position) == Read(Seek(r, position))

\* lines 102-103 with a second attempt after a failed read
ReadAtRetry(r, position) ==
    LET first == Decode(r, position)
    IN  IF first.ret THEN first ELSE Decode(first.reader, position)

\* lines 102-103: seek, then read one frame
ReadAt(r, position) == Decode(r, position)

\* line 93 with `<=` for `<`: one position past the end accepted
InRangeUpTo(position, total) == 0 <= position /\ position <= total

\* line 93
InRangeOf(position, total) == 0 <= position /\ position < total

\* line 96 never finding the entry
CacheHitNever(r, position, use_cache) == FALSE

\* line 96 without `use_cache and`
CacheHitAlways(r, position, use_cache) == position \in DOMAIN r.frame_cache

\* line 96
CacheHit(r, position, use_cache) == use_cache /\ position \in DOMAIN r.frame_cache

\* lines 93-100: range check, cache lookup, open; decode tells that the call goes
\* on to seek and read
\* `0 <= position < self.total_frames` compares with total_frames only when
\* 0 <= position, and comparing an int with None is a TypeError.
Prepare(r, position, use_cache) ==
    LET t == total_frames(r)
        finished(o) == [reader |-> o.reader, exc |-> o.exc, value |-> o.value,
                        decode |-> FALSE]
    IN  IF t.exc # "none" THEN finished(t)
        ELSE IF 0 <= position /\ t.value = None
             THEN finished(Outcome(t.reader, "TypeError", None))
        ELSE IF ~InRangeOf(position, t.value)
             THEN finished(Outcome(t.reader, "ValueError", None))
        ELSE IF CacheHit(t.reader, position, use_cache)
             THEN finished(Outcome(t.reader, "none", t.reader.frame_cache[position]))
        ELSE LET o == open(t.reader)
             IN  IF o.exc # "none" THEN finished(o)
                 ELSE [reader |-> o.reader, exc |-> "none", value |-> None,
                       decode |-> TRUE]

\* lines 105-114 without `if use_cache:` at line 111: every decoded frame stored
FinishStoringAlways(r, position, use_cache, ret, frame) ==
    LET frame_data == FrameData(NewId(r, position), frame, position, r.fps)
    IN  IF ~ret THEN Outcome(r, "RuntimeError", None)
        ELSE Outcome([r EXCEPT !.frame_cache = (position :> frame_data) @@ @],
                     "none", frame_data)

\* lines 105-114: what the call makes of (ret, frame)
Finish(r, position, use_cache, ret, frame) ==
    LET frame_data == FrameData(NewId(r, position), frame, position, r.fps)
    IN  IF ~ret THEN Outcome(r, "RuntimeError", None)
        ELSE IF use_cache
             THEN Outcome([r EXCEPT !.frame_cache = (position :> frame_data) @@ @],
                          "none", frame_data)
        ELSE Outcome(r, "none", frame_data)

\* lines 82-114
get_frame_at_position(r, position, use_cache) ==
    LET p == Prepare(r, position, use_cache)
    IN  IF ~p.decode THEN Outcome(p.reader, p.exc, p.value)
        ELSE LET rd == ReadAt(p.reader, position)
             IN  Finish(rd.reader, position, use_cache, rd.ret, rd.frame)

\* a position specification: an integer, or a list/tuple of position specifications
PInt(n) == [kind |-> "int", value |-> n, items |-> <<>>]
PList(items) == [kind |-> "list", value |-> 0, items |-> items]

\* lines 223-231; int(item) leaves an integer item as it is
RECURSIVE flatten_positions(_)
flatten_positions(positions) ==
    IF positions = <<>> THEN <<>>
    ELSE LET item == Head(positions)
         IN  (IF item.kind = "list"
              THEN flatten_positions(item.items)
              ELSE <<item.value>>) \o flatten_positions(Tail(positions))

\* set(list)
ToSet(list) == {list[k] : k \in DOMAIN list}

\* sorted(set)
RECURSIVE sorted(_)
sorted(set) ==
    IF set = {} THEN <<>>
    ELSE LET least == CHOOSE x \in set : \A y \in set : x <= y
         IN  <<least>> \o sorted(set \ {least})

\* line 132 without sorted(): the unique positions in order of first request
RECURSIVE DedupInOrder(_)
DedupInOrder(list) ==
    IF list = <<>> THEN <<>>
    ELSE LET rest == DedupInOrder(SubSeq(list, 1, Len(list) - 1))
             last == list[Len(list)]
         IN  IF last \in {rest[k] : k \in DOMAIN rest} THEN rest ELSE Append(rest, last)

\* line 132 with sorted(..., reverse=True): the largest position first
UniquePositionsDescending(flattened_positions) ==
    LET ascending == sorted(ToSet(flattened_positions))
    IN  [k \in DOMAIN ascending |-> ascending[Len(ascending) + 1 - k]]

\* line 132
UniquePositions(flattened_positions) == sorted(ToSet(flattened_positions))

\* lines 134-139: the loop stops at the first position that raises
RECURSIVE FramesLoop(_, _, _, _)
FramesLoop(r, unique_positions, use_cache, frames) ==
    IF unique_positions = <<>> THEN Outcome(r, "none", frames)
    ELSE LET o == get_frame_at_position(r, Head(unique_positions), use_cache)
         IN  IF o.exc # "none" THEN o
             ELSE FramesLoop(o.reader, Tail(unique_positions), use_cache,
                             Append(frames, o.value))

\* lines 131-139 made atomic: a call that raises leaves the cache as it found it
get_framesAtomic(r, positions, use_cache) ==
    LET o == FramesLoop(r, UniquePositions(flatten_positions(positions)), use_cache, <<>>)
    IN  IF o.exc = "none" THEN o
        ELSE Outcome([o.reader EXCEPT !.frame_cache = r.frame_cache], o.exc, o.value)

\* lines 131-139
get_frames(r, positions, use_cache) ==
    FramesLoop(r, UniquePositions(flatten_positions(positions)), use_cache, <<>>)

\* the requests made of a reader: flat, nested, mixed, repeated, in any order
RequestPositions == -1..MaxVideoFrames

PositionSpecs ==
    LET P == RequestPositions
    IN  {<<>>, <<PList(<<>>)>>}
        \cup {<<PInt(a)>> : a \in P}
        \cup {<<PInt(a), PInt(b)>> : a \in P, b \in P}
        \cup {<<PInt(a), PInt(b), PInt(c)>> : a \in P, b \in P, c \in P}
        \cup {<<PList(<<PInt(a), PInt(b)>>), PInt(c)>> : a \in P, b \in P, c \in P}
        \cup {<<PInt(a), PList(<<PInt(b), PInt(c)>>)>> : a \in P, b \in P, c \in P}
        \cup {<<PList(<<PInt(a), PList(<<PInt(b), PList(<<PInt(c)>>)>>)>>)>> :
                 a \in P, b \in P, c \in P}
        \cup {<<PList(<<PInt(a), PInt(b)>>), PList(<<>>), PList(<<PInt(c), PInt(a)>>)>> :
                 a \in P, b \in P, c \in P}

\* a finished call: what was asked (positions; arg is step or window_size), the
\* outcome, and the cv2 calls it made
Call(op, positions, arg, use_cache, o) ==
    [op |-> op, positions |-> positions, arg |-> arg, use_cache |-> use_cache,
     exc |-> o.exc, value |-> o.value, log |-> o.reader.log]

\* the reader a finished call leaves behind
After(o) == [o.reader EXCEPT !.log = NoLog]

NoResult == [op |-> "none", positions |-> <<>>, arg |-> 0, use_cache |-> FALSE,
             exc |-> "none", value |-> None, log |-> NoLog]

\* the caller is between two calls
Idle == result.op = "none"

Open ==
    /\ Idle
    /\ LET o == open(reader)
       IN  /\ reader' = After(o)
           /\ result' = Call("open", <<>>, 0, FALSE, o)
    /\ UNCHANGED video
    /\ UNCHANGED datasetVars

Close ==
    /\ Idle
    /\ LET o == close(reader)
       IN  /\ reader' = After(o)
           /\ result' = Call("close", <<>>, 0, FALSE, o)
    /\ UNCHANGED video
    /\ UNCHANGED datasetVars

GetFrameAtPosition ==
    /\ Idle
    /\ \E position \in RequestPositions, use_cache \in BOOLEAN :
          LET o == get_frame_at_position(reader, position, use_cache)
          IN  /\ reader' = After(o)
              /\ result' = Call("get_frame_at_position", <<PInt(position)>>, 0,
                                   use_cache, o)
    /\ UNCHANGED video
    /\ UNCHANGED datasetVars

GetFrames ==
    /\ Idle
    /\ \E positions \in PositionSpecs, use_cache \in BOOLEAN :
          LET o == get_frames(reader, positions, use_cache)
          IN  /\ reader' = After(o)
              /\ result' = Call("get_frames", positions, 0, use_cache, o)
    /\ UNCHANGED video
    /\ UNCHANGED datasetVars

\* range(start, stop, step) for step >= 1
RECURSIVE StepRange(_, _, _)
StepRange(start, stop, step) ==
    IF start >= stop THEN <<>>
    ELSE <<start>> \o StepRange(start + step, stop, step)

\* a list of integers as a positions argument
Ints(list) == [k \in DOMAIN list |-> PInt(list[k])]

\* lines 155-156 left out: the pair as given
OrderedAsGiven(start, end) == <<start, end>>

\* lines 155-156: if start > end: start, end = end, start
Ordered(start, end) == IF start > end THEN <<end, start>> ELSE <<start, end>>

\* lines 153-157: the loop over position_ranges (pairs as lists [start, end])
RECURSIVE RangePositions(_, _)
RangePositions(position_ranges, step) ==
    IF position_ranges = <<>> THEN <<>>
    ELSE LET pair == Head(position_ranges).items
             se == Ordered(pair[1].value, pair[2].value)
         IN  StepRange(se[1], se[2] + 1, step)
                 \o RangePositions(Tail(position_ranges), step)

\* lines 141-160
get_frames_from_ranges(r, position_ranges, step, use_cache) ==
    get_frames(r, Ints(RangePositions(position_ranges, step)), use_cache)

MaxStep == 2

\* endpoints of the ranges asked for; MaxVideoFrames is past the end of every file
RangeEnds == 0..MaxVideoFrames

\* no pair, one pair, or two pairs of which the first may be reversed
RangeSpecs ==
    LET pairs == {PList(<<PInt(a), PInt(b)>>) : a \in RangeEnds, b \in RangeEnds}
        ascending == {x \in pairs : x.items[1].value <= x.items[2].value}
    IN  {<<>>} \cup {<<x>> : x \in pairs} \cup {<<x, y>> : x \in pairs, y \in ascending}

GetFramesFromRanges ==
    /\ Idle
    /\ \E position_ranges \in RangeSpecs, step \in 1..MaxStep, use_cache \in BOOLEAN :
          LET o == get_frames_from_ranges(reader, position_ranges, step, use_cache)
          IN  /\ reader' = After(o)
              /\ result' = Call("get_frames_from_ranges", position_ranges, step,
                                use_cache, o)
    /\ UNCHANGED video
    /\ UNCHANGED datasetVars

\* lines 178-181: the loop over the centers; self.total_frames is the property, read
\* in every iteration
RECURSIVE AroundLoop(_, _, _, _)
AroundLoop(r, positions, half_window, all_positions) ==
    IF positions = <<>> THEN Outcome(r, "none", all_positions)
    ELSE LET pos == Head(positions).value
             start == Max(0, pos - half_window)
             t == total_frames(r)
         IN  IF t.exc # "none" THEN t
             ELSE IF t.value = None THEN Outcome(t.reader, "TypeError", None)
             ELSE LET end == Min(t.value - 1, pos + half_window)
                  IN  AroundLoop(t.reader, Tail(positions), half_window,
                                 all_positions \o StepRange(start, end + 1, 1))

\* lines 162-184
get_frames_around_positions(r, positions, window_size, use_cache) ==
    LET half_window == window_size \div 2
        all == AroundLoop(r, positions, half_window, <<>>)
    IN  IF all.exc # "none" THEN all
        ELSE get_frames(all.reader, Ints(all.value), use_cache)

MaxWindow == 3

CenterSpecs ==
    {<<>>} \cup {<<PInt(a)>> : a \in RequestPositions}
           \cup {<<PInt(a), PInt(b)>> : a \in RequestPositions, b \in RequestPositions}

GetFramesAroundPositions ==
    /\ Idle
    /\ \E positions \in CenterSpecs, window_size \in 1..MaxWindow, use_cache \in BOOLEAN :
          LET o == get_frames_around_positions(reader, positions, window_size, use_cache)
          IN  /\ reader' = After(o)
              /\ result' = Call("get_frames_around_positions", positions, window_size,
                                use_cache, o)
    /\ UNCHANGED video
    /\ UNCHANGED datasetVars

\* reader.total_frames read by the caller
TotalFrames ==
    /\ Idle
    /\ LET o == total_frames(reader)
       IN  /\ reader' = After(o)
           /\ result' = Call("total_frames", <<>>, 0, FALSE, o)
    /\ UNCHANGED video
    /\ UNCHANGED datasetVars

\* reader.fps read by the caller
Fps ==
    /\ Idle
    /\ LET o == fps(reader)
       IN  /\ reader' = After(o)
           /\ result' = Call("fps", <<>>, 0, FALSE, o)
    /\ UNCHANGED video
    /\ UNCHANGED datasetVars

\* lines 202-211: the frames returned, and the files cv2.imwrite has written, one
\* per frame and named by the position of the frame
SaveFrames(frames, output_dir) ==
    [frames |-> frames,
     written |-> IF output_dir = None THEN {}
                 ELSE {frames[k].position : k \in DOMAIN frames}]

\* what extract_frames_batch makes of the outcome of line 200
Saved(o, output_dir) ==
    IF o.exc # "none" THEN o
    ELSE Outcome(o.reader, "none", SaveFrames(o.value, output_dir))

\* lines 186-211
extract_frames_batch(r, positions, output_dir) ==
    Saved(get_frames(r, positions, TRUE), output_dir)

\* the batches asked for: flat, repeated, unsorted and nested
BatchSpecs ==
    {<<>>}
    \cup {<<PInt(a)>> : a \in RequestPositions}
    \cup {<<PInt(a), PList(<<PInt(b)>>)>> : a \in RequestPositions, b \in RequestPositions}

\* output_dir is None or a directory (1)
ExtractFramesBatch ==
    /\ Idle
    /\ \E positions \in BatchSpecs, output_dir \in {None, 1} :
          LET o == extract_frames_batch(reader, positions, output_dir)
          IN  /\ reader' = After(o)
              /\ result' = Call("extract_frames_batch", positions, output_dir, TRUE, o)
    /\ UNCHANGED video
    /\ UNCHANGED datasetVars

\* lines 233-250 with a new capture made at line 241 on every call
get_video_infoReopening(r) ==
    LET o == openAlways(r)
    IN  IF o.exc # "none" THEN o
        ELSE Outcome(o.reader, "none",
                     [total_frames |-> o.reader.total_frames, fps |-> o.reader.fps,
                      duration_seconds |-> <<o.reader.total_frames, o.reader.fps>>])

\* lines 233-250; the dictionary is built from the two properties, and
\* total_frames / fps of two values that are None is a TypeError
get_video_info(r) ==
    LET o == IF r.cap = "None" THEN open(r) ELSE Outcome(r, "none", None)
    IN  IF o.exc # "none" THEN o
        ELSE LET t == total_frames(o.reader)
                 f == fps(t.reader)
             IN  IF t.exc # "none" THEN t
                 ELSE IF f.exc # "none" THEN f
                 ELSE IF t.value = None \/ f.value = None
                      THEN Outcome(f.reader, "TypeError", None)
                 ELSE Outcome(f.reader, "none",
                              [total_frames |-> t.value, fps |-> f.value,
                               duration_seconds |-> <<t.value, f.value>>])

GetVideoInfo ==
    /\ Idle
    /\ LET o == get_video_info(reader)
       IN  /\ reader' = After(o)
           /\ result' = Call("get_video_info", <<>>, 0, FALSE, o)
    /\ UNCHANGED video
    /\ UNCHANGED datasetVars

\* the caller has the returned value, or has caught the exception, and goes on
Return ==
    /\ ~Idle
    /\ result' = NoResult
    /\ UNCHANGED <<video, reader>>
    /\ UNCHANGED datasetVars

\* no concurrent callers
NoWorkers == <<>>

\* no reader in use
NoReader ==
    /\ video = VideoFile(1, {}, TRUE)
    /\ reader = NewReader
    /\ result = NoResult

----------------------------------------------------------------------------
(* Inputs: annotation records as _filter_valid_videos leaves them *)

Boundary(f, t) == [from |-> f, to |-> t]

BoundarySet ==
    {Boundary(f, f + g) : f \in 0..MaxFrames, g \in -1..MaxGap}

Video(T, bs) == [total_frames |-> T, frame_boundaries |-> bs]

\* one video with one boundary, every small size
SmallDatasets ==
    {[sequence_length |-> S, random_offset_range |-> J,
      valid_videos |-> <<Video(T, <<b>>)>>] :
        S \in 1..MaxSeqLen, J \in 0..MaxJitter, T \in 0..MaxFrames, b \in BoundarySet}

\* the scenarios of the specification (A, B, C, D), in one dataset without jitter
ScenarioDataset ==
    [sequence_length |-> 16, random_offset_range |-> 0,
     valid_videos |-> <<Video(100, <<Boundary(40, 41), Boundary(40, 50)>>),
                        Video(20, <<Boundary(5, 6)>>),
                        Video(10, <<Boundary(5, 6)>>)>>]

\* several boundaries per video, with jitter (ScenarioDataset has none)
MultiDataset ==
    [sequence_length |-> 3, random_offset_range |-> 1,
     valid_videos |-> <<Video(6, <<Boundary(1, 2), Boundary(3, 5)>>)>>]

\* instantaneous cuts inside the video, sequence_length even and the jitter at
\* most sequence_length // 2 - 2: every cut of the videos of 4 and 6 frames and
\* more, and cuts at both ends and in the middle with the default
\* sequence_length=16, random_offset_range=5
CutDatasets ==
    {[sequence_length |-> S, random_offset_range |-> J,
      valid_videos |-> <<Video(T, <<Boundary(f, f + 1)>>)>>] :
        S \in {4, 6}, J \in 0..1, T \in 4..(MaxFrames + 3), f \in 0..(MaxFrames + 1)}
    \cup {[sequence_length |-> 16, random_offset_range |-> 5,
           valid_videos |-> <<Video(18, <<Boundary(f, f + 1)>>)>>] : f \in {0, 8, 16}}

Datasets == SmallDatasets \cup {ScenarioDataset} \cup {MultiDataset} \cup CutDatasets

----------------------------------------------------------------------------
(* AutoshotDataset._generate_sequences *)

\* lines 94-98 with sequence_length subtracted at line 98 instead of half_length
BaseStartFullLength(boundary, S) ==
    ((boundary.from + boundary.to) \div 2) - S

\* lines 94-98 with the window centered on to_frame instead of the transition center
BaseStartAtTo(boundary, S) == boundary.to - (S \div 2)

\* lines 94-98 with the window centered on from_frame instead of the transition center
BaseStartAtFrom(boundary, S) == boundary.from - (S \div 2)

\* lines 94-98
BaseStart(boundary, S) == ((boundary.from + boundary.to) \div 2) - (S \div 2)

\* lines 109-110 and 123-124 without the upper clamp
ClampStartNoMin(start, T, S) == Max(0, start)

\* lines 109-110 and 123-124: max first, then min
ClampStart(start, T, S) == Min(Max(0, start), T - S)

\* lines 112 and 126
Accepted(start, T, S) == start + S <= T

\* lines 113-119 and 127-133; video_data and boundary are references
SequenceInfo(v, b, start, S) ==
    [video_data |-> v,
     start_frame |-> start,
     end_frame |-> start + S - 1,
     frame_positions |-> RangeList(start, start + S),
     boundary |-> b]

CurVideo == valid_videos[vi]
CurBoundary == CurVideo.frame_boundaries[bi]

\* one body of the loops: the window for `start`, appended when accepted
Emit(start) ==
    LET T == CurVideo.total_frames
        s == ClampStart(start, T, sequence_length)
    IN  IF Accepted(s, T, sequence_length)
        THEN Append(sequences, SequenceInfo(vi, bi, s, sequence_length))
        ELSE sequences

\* the for loops of lines 84 and 89 move on to the next boundary, video, or return
NextBoundary ==
    /\ trial' = 0
    /\ IF bi < Len(CurVideo.frame_boundaries)
       THEN /\ bi' = bi + 1
            /\ UNCHANGED <<vi, pc>>
       ELSE /\ bi' = 1
            /\ vi' = vi + 1
            /\ pc' = IF vi < Len(valid_videos) THEN "generate" ELSE "ready"

\* lines 101-120: one of the 3 variations of a boundary
GenerateJittered ==
    /\ pc = "generate"
    /\ random_offset_range > 0
    /\ trial < 3
    /\ \E offset \in (-random_offset_range)..random_offset_range :
          /\ sequences' = Emit(BaseStart(CurBoundary, sequence_length) + offset)
          /\ trials' = Append(trials, <<vi, bi, offset>>)
    /\ IF trial + 1 < 3
       THEN /\ trial' = trial + 1
            /\ UNCHANGED <<vi, bi, pc>>
       ELSE NextBoundary
    /\ UNCHANGED <<sequence_length, random_offset_range, valid_videos, labelled>>
    /\ UNCHANGED readerVars
    /\ UNCHANGED workers

\* lines 121-134: no random offset
GenerateCentered ==
    /\ pc = "generate"
    /\ ~(random_offset_range > 0)
    /\ sequences' = Emit(BaseStart(CurBoundary, sequence_length))
    /\ trials' = Append(trials, <<vi, bi, 0>>)
    /\ NextBoundary
    /\ UNCHANGED <<sequence_length, random_offset_range, valid_videos, labelled>>
    /\ UNCHANGED readerVars
    /\ UNCHANGED workers

----------------------------------------------------------------------------
(* AutoshotDataset._get_scene_labels *)

\* lines 155-162 with the two tests exchanged: `>= to_frame` asked first
LabelOfToFirst(frame_pos, from_frame, to_frame) ==
    IF frame_pos >= to_frame THEN 2
    ELSE IF frame_pos <= from_frame THEN 0
    ELSE 1

\* lines 155-162 with `<` for `<=`: from_frame itself counted as transition
LabelOfStrict(frame_pos, from_frame, to_frame) ==
    IF frame_pos < from_frame THEN 0
    ELSE IF frame_pos >= to_frame THEN 2
    ELSE 1

\* lines 155-162 with `==` for `<=`: only from_frame itself is previous shot
LabelOfEqual(frame_pos, from_frame, to_frame) ==
    IF frame_pos = from_frame THEN 0
    ELSE IF frame_pos >= to_frame THEN 2
    ELSE 1

\* lines 155-162 with `>` for `>=`: to_frame itself counted as transition
LabelOfAfterTo(frame_pos, from_frame, to_frame) ==
    IF frame_pos <= from_frame THEN 0
    ELSE IF frame_pos > to_frame THEN 2
    ELSE 1

\* lines 155-162
LabelOf(frame_pos, from_frame, to_frame) ==
    IF frame_pos <= from_frame THEN 0
    ELSE IF frame_pos >= to_frame THEN 2
    ELSE 1

\* lines 147-164: the loop appends one label per frame position
RECURSIVE LabelLoop(_, _, _, _)
LabelLoop(frame_positions, from_frame, to_frame, labels) ==
    IF frame_positions = <<>> THEN labels
    ELSE LabelLoop(Tail(frame_positions), from_frame, to_frame,
                   Append(labels, LabelOf(Head(frame_positions), from_frame, to_frame)))

get_scene_labels(frame_positions, boundary) ==
    LabelLoop(frame_positions, boundary.from, boundary.to, <<>>)

BoundaryOf(info) == valid_videos[info.video_data].frame_boundaries[info.boundary]

\* a call of _get_scene_labels: its sequence_info argument and its result
LabelCall(st, idx, fp, b, ls) ==
    [state |-> st, idx |-> idx, frame_positions |-> fp, boundary |-> b, labels |-> ls]

\* no call of _get_scene_labels yet
NoCall == LabelCall("none", 0, <<>>, Boundary(0, 0), <<>>)

\* line 212: __getitem__ labels the window at idx
GetSceneLabels ==
    /\ pc = "ready"
    /\ labelled.state # "pending"
    /\ \E idx \in 1..Len(sequences) :
          LET fp == sequences[idx].frame_positions
              b == BoundaryOf(sequences[idx])
          IN  labelled' = LabelCall("done", idx, fp, b, get_scene_labels(fp, b))
    /\ UNCHANGED <<sequence_length, random_offset_range, valid_videos, sequences,
                   pc, vi, bi, trial, trials>>
    /\ UNCHANGED readerVars
    /\ UNCHANGED workers

\* the file at videos_dir / filename of a record: it decodes, and has the frames
\* the annotation counts
FileOf(v) == VideoFile(valid_videos[v].total_frames, {}, TRUE)

\* lines 166-182: resize, BGR to RGB, scale to [0, 1]; one array per frame
preprocess_frame(frame) == [rgb |-> frame]

\* lines 207-209
ProcessedFrames(frame_data_list) ==
    [k \in DOMAIN frame_data_list |-> preprocess_frame(frame_data_list[k].frame)]

\* lines 196-201 of __getitem__: the window at idx and the file of its video
GetItemLookup ==
    /\ pc = "ready"
    /\ labelled.state = "none"
    /\ Idle
    /\ \E idx \in 1..Len(sequences) :
          /\ labelled' = LabelCall("pending", idx, sequences[idx].frame_positions,
                                   BoundaryOf(sequences[idx]), <<>>)
          /\ video' = FileOf(sequences[idx].video_data)
    /\ UNCHANGED <<sequence_length, random_offset_range, valid_videos, sequences,
                   pc, vi, bi, trial, trials, reader, result, workers>>

\* lines 203-218 of __getitem__: the frames through a new VideoReader in a with
\* statement, then the labels; an exception of the reader leaves __getitem__
\* before the labels are made
GetItem ==
    /\ pc = "ready"
    /\ labelled.state = "pending"
    /\ LET frame_positions == labelled.frame_positions
           entered == enter(NewReader)
           got == IF entered.exc # "none" THEN entered
                  ELSE get_frames(entered.reader, Ints(frame_positions), TRUE)
           left == IF entered.exc # "none" THEN entered ELSE exit(got.reader)
           frames == IF got.exc # "none" THEN <<>> ELSE ProcessedFrames(got.value)
       IN  /\ reader' = After(left)
           /\ result' = Call("getitem", Ints(frame_positions), 0, TRUE,
                             Outcome(left.reader, got.exc, frames))
           /\ labelled' = IF got.exc # "none" THEN NoCall
                          ELSE [labelled EXCEPT
                                  !.state = "done",
                                  !.labels = get_scene_labels(frame_positions,
                                                              labelled.boundary)]
    /\ UNCHANGED <<sequence_length, random_offset_range, valid_videos, sequences,
                   pc, vi, bi, trial, trials, video, workers>>

----------------------------------------------------------------------------
(* AutoshotDataset.__init__, lines 41-51 *)

\* no dataset: the generation variables rest
NoDataset ==
    /\ sequence_length = 1
    /\ random_offset_range = 0
    /\ valid_videos = <<>>
    /\ sequences = <<>>
    /\ pc = "ready"
    /\ vi = 1
    /\ bi = 1
    /\ trial = 0
    /\ trials = <<>>
    /\ labelled = NoCall
    /\ workers = NoWorkers

Init ==
    /\ \E d \in Datasets :
          /\ sequence_length = d.sequence_length
          /\ random_offset_range = d.random_offset_range
          /\ valid_videos = d.valid_videos
    /\ sequences = <<>>
    /\ pc = "generate"
    /\ vi = 1
    /\ bi = 1
    /\ trial = 0
    /\ trials = <<>>
    /\ labelled = NoCall
    /\ workers = NoWorkers
    /\ NoReader

Next ==
    \/ GenerateJittered
    \/ GenerateCentered
    \/ GetSceneLabels

Spec == Init /\ [][Next]_vars

----------------------------------------------------------------------------
(* __getitem__ on the generated windows: the frames of a window read from the
   file of its video *)

ItemJitter == 1     \* random_offset_range of the datasets items are read from

InitItems ==
    /\ Init
    /\ random_offset_range <= ItemJitter

NextItems ==
    \/ GenerateJittered
    \/ GenerateCentered
    \/ GetItemLookup
    \/ GetItem

SpecItems == InitItems /\ [][NextItems]_vars

----------------------------------------------------------------------------
(* _get_scene_labels on its own: any list of frame positions, any boundary *)

RECURSIVE SeqsUpTo(_, _)
SeqsUpTo(S, n) ==
    IF n = 0 THEN {<<>>}
    ELSE LET shorter == SeqsUpTo(S, n - 1)
         IN  shorter \cup {Append(q, x) : q \in {r \in shorter : Len(r) = n - 1}, x \in S}

PositionLists == SeqsUpTo(0..(MaxFrames + 1), MaxLen)

\* the boundaries labelled: those of BoundarySet and malformed ones, to_frame
\* further below from_frame
LabelBoundaries ==
    BoundarySet \cup {Boundary(f, f - g) : f \in 0..MaxFrames, g \in 2..(MaxGap + 1)}

InitLabels ==
    /\ sequence_length = 1
    /\ random_offset_range = 0
    /\ valid_videos = <<>>
    /\ sequences = <<>>
    /\ pc = "ready"
    /\ vi = 1
    /\ bi = 1
    /\ trial = 0
    /\ trials = <<>>
    /\ \E fp \in PositionLists, b \in LabelBoundaries :
          labelled = LabelCall("pending", 0, fp, b, <<>>)
    /\ workers = NoWorkers
    /\ NoReader

\* lines 147-164 applied to the pending argument
LabelWindow ==
    /\ labelled.state = "pending"
    /\ labelled' = [labelled EXCEPT
                      !.state = "done",
                      !.labels = get_scene_labels(labelled.frame_positions,
                                                  labelled.boundary)]
    /\ UNCHANGED <<sequence_length, random_offset_range, valid_videos, sequences,
                   pc, vi, bi, trial, trials>>
    /\ UNCHANGED readerVars
    /\ UNCHANGED workers

NextLabels == LabelWindow

SpecLabels == InitLabels /\ [][NextLabels]_vars

----------------------------------------------------------------------------
(* A VideoReader on its own *)

\* VideoReader(path), lines 33-40
InitReader ==
    /\ NoDataset
    /\ video \in VideoFiles
    /\ reader = NewReader
    /\ result = NoResult

NextReader ==
    \/ Open
    \/ Close
    \/ GetFrameAtPosition
    \/ GetFrames
    \/ GetVideoInfo
    \/ ExtractFramesBatch
    \/ Fps
    \/ TotalFrames
    \/ GetFramesAroundPositions
    \/ GetFramesFromRanges
    \/ Return

SpecReader == InitReader /\ [][NextReader]_vars

-----------------------------------------------------------------------------
(* VideoReader used through the with statement, as __getitem__ does:
   `with VideoReader(video_path) as reader:` calls __enter__, runs the body and
   calls __exit__ when the body returns or raises.  When __enter__ itself raises,
   the with statement is left without a call of __exit__.  pc is "outside" before
   the statement, "inside" in its body and "left" after it. *)

InitScoped ==
    /\ sequence_length = 1
    /\ random_offset_range = 0
    /\ valid_videos = <<>>
    /\ sequences = <<>>
    /\ pc = "outside"
    /\ vi = 1
    /\ bi = 1
    /\ trial = 0
    /\ trials = <<>>
    /\ labelled = NoCall
    /\ workers = NoWorkers
    /\ video \in VideoFiles
    /\ reader = NewReader
    /\ result = NoResult

\* the with statement is entered, on a new reader or again on the same one
Enter ==
    /\ pc \in {"outside", "left"}
    /\ LET o == enter(reader)
       IN  /\ reader' = After(o)
           /\ result' = Call("enter", <<>>, 0, FALSE, o)
           /\ pc' = IF o.exc = "none" THEN "inside" ELSE "left"
    /\ UNCHANGED <<video, sequence_length, random_offset_range, valid_videos,
                   sequences, vi, bi, trial, trials, labelled, workers>>

\* the body calls the reader
Body == pc = "inside" /\ NextReader

\* the body has returned, or a call of the body has raised and nothing caught it
Exit ==
    /\ pc = "inside"
    /\ LET o == exit(reader)
       IN  /\ reader' = After(o)
           /\ result' = Call("exit", <<>>, 0, FALSE,
                             [o EXCEPT !.exc = result.exc])
           /\ pc' = "left"
    /\ UNCHANGED <<video, sequence_length, random_offset_range, valid_videos,
                   sequences, vi, bi, trial, trials, labelled, workers>>

NextScoped == Enter \/ Body \/ Exit

SpecScoped == InitScoped /\ [][NextScoped]_vars

----------------------------------------------------------------------------
(* Two workers, each with a VideoReader of its own on the same file, as the
   workers of a DataLoader that each run __getitem__.  workers[w] holds the
   worker's instance and the calls it has made, with their outcomes. *)

MaxCalls == 2       \* calls one worker makes

\* positions the workers of this section ask for: in the 2-frame files, and past them
WorkerPositions == 0..2

\* the files the workers read: 2 frames, every frame decodable or one not
WorkerFiles ==
    {VideoFile(2, bad, TRUE) : bad \in {{}, {0}, {1}}}

\* the methods a worker calls
WorkerOps ==
    {[op |-> op, position |-> 0, use_cache |-> FALSE] : op \in {"open", "close"}}
        \cup {[op |-> "get_frame_at_position", position |-> p, use_cache |-> c] :
                 p \in WorkerPositions, c \in BOOLEAN}

\* the method c.op of instance r
Apply(r, c) ==
    IF c.op = "open" THEN open(r)
    ELSE IF c.op = "close" THEN close(r)
    ELSE get_frame_at_position(r, c.position, c.use_cache)

\* lines 37-40 with _frame_cache a class attribute: one dict for all instances
WrittenSharingCache(ws, w, r, call) ==
    [v \in DOMAIN ws |->
        IF v = w THEN [reader |-> r, calls |-> Append(ws[w].calls, call)]
        ELSE [ws[v] EXCEPT !.reader.frame_cache = r.frame_cache]]

\* lines 37-40: _cap, _total_frames, _fps and _frame_cache are attributes of the
\* instance, so a method of instance w writes to instance w alone
Written(ws, w, r, call) ==
    [ws EXCEPT ![w] = [reader |-> r, calls |-> Append(ws[w].calls, call)]]

InitTwo ==
    /\ sequence_length = 1
    /\ random_offset_range = 0
    /\ valid_videos = <<>>
    /\ sequences = <<>>
    /\ pc = "ready"
    /\ vi = 1
    /\ bi = 1
    /\ trial = 0
    /\ trials = <<>>
    /\ labelled = NoCall
    /\ video \in WorkerFiles
    /\ reader = NewReader
    /\ result = NoResult
    /\ workers = [w \in 1..2 |-> [reader |-> NewReader, calls |-> <<>>]]

\* worker w calls a method of its own instance
WorkerCall ==
    /\ \E w \in DOMAIN workers, c \in WorkerOps :
          /\ Len(workers[w].calls) < MaxCalls
          /\ LET o == Apply(workers[w].reader, c)
             IN  workers' = Written(workers, w, After(o),
                                    Call(c.op, <<PInt(c.position)>>, 0, c.use_cache, o))
    /\ UNCHANGED <<sequence_length, random_offset_range, valid_videos, sequences,
                   pc, vi, bi, trial, trials, labelled, video, reader, result>>

NextTwo == WorkerCall

SpecTwo == InitTwo /\ [][NextTwo]_vars

----------------------------------------------------------------------------
(* Two workers calling get_frame_at_position on ONE VideoReader.  The method
   takes no lock, so the calls interleave between its statements: the checks
   (lines 93-100), the seek (102), the read (103) and the rest (105-114) are
   steps of their own.  workers[w] is the call of worker w in progress. *)

\* no frame in hand
NoFrame == FrameData(None, None, None, None)

IdleWorker ==
    [pc |-> "idle", position |-> 0, use_cache |-> FALSE, ret |-> FALSE,
     frame |-> None, interrupted |-> FALSE, exc |-> "none", returned |-> NoFrame]

InitShared ==
    /\ sequence_length = 1
    /\ random_offset_range = 0
    /\ valid_videos = <<>>
    /\ sequences = <<>>
    /\ pc = "ready"
    /\ vi = 1
    /\ bi = 1
    /\ trial = 0
    /\ trials = <<>>
    /\ labelled = NoCall
    /\ video \in WorkerFiles
    /\ reader = NewReader
    /\ result = NoResult
    /\ workers = [w \in 1..2 |-> IdleWorker]

\* the other workers that have sought and not yet read lose their stream position
Interrupting(w) ==
    [v \in DOMAIN workers |->
        IF v # w /\ workers[v].pc = "read"
        THEN [workers[v] EXCEPT !.interrupted = TRUE]
        ELSE workers[v]]

\* lines 93-100 of a new call of worker w
Begin ==
    /\ \E w \in DOMAIN workers, position \in WorkerPositions, use_cache \in BOOLEAN :
          /\ workers[w].pc = "idle"
          /\ LET p == Prepare(reader, position, use_cache)
             IN  /\ reader' = After(p)
                 /\ workers' =
                       [workers EXCEPT ![w] =
                          [IdleWorker EXCEPT
                              !.pc = IF p.decode THEN "seek" ELSE "idle",
                              !.position = position,
                              !.use_cache = use_cache,
                              !.exc = p.exc,
                              !.returned = IF ~p.decode /\ p.exc = "none"
                                           THEN p.value ELSE NoFrame]]
    /\ UNCHANGED <<sequence_length, random_offset_range, valid_videos, sequences,
                   pc, vi, bi, trial, trials, labelled, video, result>>

\* line 102 of the call of worker w
DoSeek ==
    /\ \E w \in DOMAIN workers :
          /\ workers[w].pc = "seek"
          /\ reader' = [Seek(reader, workers[w].position) EXCEPT !.log = NoLog]
          /\ workers' = [Interrupting(w) EXCEPT ![w].pc = "read"]
    /\ UNCHANGED <<sequence_length, random_offset_range, valid_videos, sequences,
                   pc, vi, bi, trial, trials, labelled, video, result>>

\* line 103 of the call of worker w
DoRead ==
    /\ \E w \in DOMAIN workers :
          /\ workers[w].pc = "read"
          /\ LET rd == Read(reader)
             IN  /\ reader' = [rd.reader EXCEPT !.log = NoLog]
                 /\ workers' = [Interrupting(w) EXCEPT ![w].pc = "finish",
                                                       ![w].ret = rd.ret,
                                                       ![w].frame = rd.frame]
    /\ UNCHANGED <<sequence_length, random_offset_range, valid_videos, sequences,
                   pc, vi, bi, trial, trials, labelled, video, result>>

\* lines 105-114 of the call of worker w
DoFinish ==
    /\ \E w \in DOMAIN workers :
          /\ workers[w].pc = "finish"
          /\ LET o == Finish(reader, workers[w].position, workers[w].use_cache,
                             workers[w].ret, workers[w].frame)
             IN  /\ reader' = After(o)
                 /\ workers' = [workers EXCEPT
                                  ![w].pc = "idle",
                                  ![w].exc = o.exc,
                                  ![w].returned = IF o.exc = "none" THEN o.value
                                                  ELSE NoFrame]
    /\ UNCHANGED <<sequence_length, random_offset_range, valid_videos, sequences,
                   pc, vi, bi, trial, trials, labelled, video, result>>

NextShared == Begin \/ DoSeek \/ DoRead \/ DoFinish

SpecShared == InitShared /\ [][NextShared]_vars

----------------------------------------------------------------------------
(* Properties of window generation and label assignment *)

VideoOf(w) == valid_videos[w.video_data]

\* the loops have finished with boundary b of video v
Processed(v, b) == pc = "ready" \/ vi > v \/ (vi = v /\ bi > b)

WindowsOf(v, b) ==
    {i \in 1..Len(sequences) : sequences[i].video_data = v /\ sequences[i].boundary = b}

TrialsOf(v, b) ==
    {k \in 1..Len(trials) : trials[k][1] = v /\ trials[k][2] = b}

AllBoundaries ==
    UNION {{<<v, b>> : b \in 1..Len(valid_videos[v].frame_boundaries)} :
              v \in 1..Len(valid_videos)}

ProcessedBoundaries ==
    {vb \in AllBoundaries :
        /\ vb[2] <= Len(valid_videos[vb[1]].frame_boundaries)
        /\ Processed(vb[1], vb[2])}

\* C1: every emitted window has exactly sequence_length positions, all within
\* [0, total_frames), contiguous and ascending, with 0 <= start_frame and
\* end_frame < total_frames (also when total_frames < sequence_length).
C1_WindowInBounds ==
    \A i \in 1..Len(sequences) :
        LET w == sequences[i]
            T == VideoOf(w).total_frames
            fp == w.frame_positions
        IN  /\ Len(fp) = sequence_length
            /\ \A k \in 1..Len(fp) : 0 <= fp[k] /\ fp[k] < T
            /\ \A k \in 1..(Len(fp) - 1) : fp[k + 1] = fp[k] + 1
            /\ 0 <= w.start_frame
            /\ w.end_frame < T

\* C2: a video with total_frames < sequence_length yields no window, for every
\* boundary, jitter and offset.
C2_ShortVideoNoWindow ==
    \A i \in 1..Len(sequences) :
        VideoOf(sequences[i]).total_frames >= sequence_length

\* C3: with jitter 0 and total_frames >= sequence_length, each processed boundary
\* has exactly one window, starting at max(0, min(base_start, total_frames -
\* sequence_length)), base_start = (from + to) // 2 - sequence_length // 2.
C3_CenteredWindow ==
    random_offset_range = 0 =>
        \A vb \in ProcessedBoundaries :
            LET T == valid_videos[vb[1]].total_frames
                b == valid_videos[vb[1]].frame_boundaries[vb[2]]
                base_start == ((b.from + b.to) \div 2) - (sequence_length \div 2)
                expected == Max(0, Min(base_start, T - sequence_length))
            IN  T >= sequence_length =>
                    /\ Cardinality(WindowsOf(vb[1], vb[2])) = 1
                    /\ \A i \in WindowsOf(vb[1], vb[2]) :
                          /\ sequences[i].start_frame = expected
                          /\ sequences[i].frame_positions =
                                [k \in 1..sequence_length |-> expected + k - 1]

\* Scenario C: total_frames 20, sequence_length 16, boundary (5, 6): window [0..15]
C3_Witness ==
    /\ random_offset_range = 0
    /\ sequence_length = 16
    /\ \E i \in 1..Len(sequences) :
          /\ VideoOf(sequences[i]).total_frames = 20
          /\ BoundaryOf(sequences[i]) = Boundary(5, 6)
          /\ sequences[i].start_frame = 0
          /\ sequences[i].end_frame = 15
          /\ Processed(sequences[i].video_data, sequences[i].boundary)

\* the jitter loop runs 3 times per boundary with offsets in [-J, J], the centered
\* branch once with offset 0, and a boundary never has more windows than trials
TrialsPerBoundary ==
    \A vb \in ProcessedBoundaries :
        LET ks == TrialsOf(vb[1], vb[2])
            J == random_offset_range
        IN  /\ Cardinality(ks) = IF J > 0 THEN 3 ELSE 1
            /\ \A k \in ks : -J <= trials[k][3] /\ trials[k][3] <= J
            /\ Cardinality(WindowsOf(vb[1], vb[2])) <= Cardinality(ks)

\* C4: with J > 0 exactly 3 trials per boundary, each with an offset in [-J, J], at
\* most 3 windows per boundary, every window starting at the clamp
\* max(0, min(base_start + o, total_frames - sequence_length)) for some such o;
\* with J = 0 exactly 1 trial with offset 0.
C4_JitterTrials ==
    /\ TrialsPerBoundary
    /\ \A i \in 1..Len(sequences) :
          LET w == sequences[i]
              T == VideoOf(w).total_frames
              b == BoundaryOf(w)
              J == random_offset_range
              base_start == ((b.from + b.to) \div 2) - (sequence_length \div 2)
          IN  \E o \in (-J)..J :
                  w.start_frame = Max(0, Min(base_start + o, T - sequence_length))

\* C5: the labels of a window are one per frame position, in window order, 0 when
\* p <= from_frame, else 2 when p >= to_frame, else 1.
C5_LabelRule ==
    labelled.state = "done" =>
        LET fp == labelled.frame_positions
            b == labelled.boundary
        IN  /\ fp = sequences[labelled.idx].frame_positions
            /\ Len(labelled.labels) = sequence_length
            /\ Len(labelled.labels) = Len(fp)
            /\ \A k \in 1..Len(fp) :
                  labelled.labels[k] =
                      CASE fp[k] <= b.from -> 0
                        [] fp[k] > b.from /\ fp[k] >= b.to -> 2
                        [] OTHER -> 1

\* a labelled window that carries all three labels
C5_Witness ==
    /\ labelled.state = "done"
    /\ labelled.labels = <<0, 1, 2>>

IsContiguous(fp) == \A k \in 1..(Len(fp) - 1) : fp[k + 1] = fp[k] + 1

\* C6: for from_frame <= to_frame and a contiguous ascending window the labels are
\* non-decreasing (0* 1* 2*) and all in {0, 1, 2}.
C6_LabelsMonotone ==
    (/\ labelled.state = "done"
     /\ labelled.boundary.from <= labelled.boundary.to
     /\ IsContiguous(labelled.frame_positions)) =>
        LET ls == labelled.labels
        IN  /\ \A k \in 1..Len(ls) : ls[k] \in {0, 1, 2}
            /\ \A j, k \in 1..Len(ls) : j < k => ls[j] <= ls[k]

\* a contiguous window across a multi-frame transition
C6_Witness ==
    /\ labelled.state = "done"
    /\ labelled.boundary.from < labelled.boundary.to
    /\ IsContiguous(labelled.frame_positions)
    /\ labelled.labels = <<0, 1, 2>>

\* C7: for an instantaneous cut (to_frame = from_frame + 1) no frame position of
\* any window is labelled 1.
C7_InstantCutNoTransition ==
    (/\ labelled.state = "done"
     /\ labelled.boundary.to = labelled.boundary.from + 1) =>
        \A k \in 1..Len(labelled.labels) : labelled.labels[k] # 1

\* an instantaneous cut labelled on a window that is not contiguous and holds
\* both from_frame and to_frame
C7_Witness ==
    /\ labelled.state = "done"
    /\ labelled.boundary.to = labelled.boundary.from + 1
    /\ ~IsContiguous(labelled.frame_positions)
    /\ \E j, k \in 1..Len(labelled.frame_positions) :
          /\ labelled.frame_positions[j] = labelled.boundary.from
          /\ labelled.frame_positions[k] = labelled.boundary.to
    /\ labelled.labels # <<>>

\* the labelled window is the one of Scenario A / B: total_frames 100,
\* sequence_length 16, no jitter, boundary (40, to)
ScenarioWindow(to) ==
    /\ labelled.state = "done"
    /\ sequence_length = 16
    /\ random_offset_range = 0
    /\ VideoOf(sequences[labelled.idx]).total_frames = 100
    /\ labelled.boundary = Boundary(40, to)

Labels3(n0, n1, n2) ==
    [k \in 1..(n0 + n1 + n2) |-> IF k <= n0 THEN 0 ELSE IF k <= n0 + n1 THEN 1 ELSE 2]

\* C8 as stated: Scenario A gives the window 32..47 labelled eight 0s then eight 2s.
C8_ScenarioA_Stated ==
    ScenarioWindow(41) =>
        /\ sequences[labelled.idx].start_frame = 32
        /\ sequences[labelled.idx].end_frame = 47
        /\ labelled.labels = Labels3(8, 0, 8)

\* C8 amended: Scenario A gives the window 32..47 labelled nine 0s (32..40, frame
\* 40 being from_frame) then seven 2s (41..47).
C8_ScenarioA ==
    ScenarioWindow(41) =>
        /\ sequences[labelled.idx].start_frame = 32
        /\ sequences[labelled.idx].end_frame = 47
        /\ labelled.frame_positions = [k \in 1..16 |-> 31 + k]
        /\ labelled.labels = Labels3(9, 0, 7)

C8_Witness == ScenarioWindow(41) /\ labelled.labels # <<>>

\* C9 as stated: in Scenario B positions 32-39 belong to the generated window and
\* get 0, position 40 gets 0, 41-49 get 1 and positions from 50 on get 2.
C9_ScenarioB_Stated ==
    ScenarioWindow(50) =>
        LET fp == labelled.frame_positions
        IN  /\ \A p \in 32..39 : \E k \in 1..Len(fp) : fp[k] = p
            /\ \A k \in 1..Len(fp) :
                  /\ fp[k] \in 32..40 => labelled.labels[k] = 0
                  /\ fp[k] \in 41..49 => labelled.labels[k] = 1
                  /\ fp[k] >= 50 => labelled.labels[k] = 2

\* C9 amended: in Scenario B the generated window is 37..52 (transition center 45,
\* base_start 37); positions 37-40 get 0, 41-49 get 1 and 50-52 get 2.
C9_ScenarioB ==
    ScenarioWindow(50) =>
        /\ sequences[labelled.idx].start_frame = 37
        /\ sequences[labelled.idx].end_frame = 52
        /\ labelled.frame_positions = [k \in 1..16 |-> 36 + k]
        /\ labelled.labels = Labels3(4, 9, 3)

C9_Witness == ScenarioWindow(50) /\ Len(labelled.labels) = 16

----------------------------------------------------------------------------
(* Properties of VideoReader *)

\* the integers of a position specification, to any depth
RECURSIVE Leaves(_)
Leaves(node) ==
    IF node.kind = "int" THEN {node.value}
    ELSE UNION {Leaves(node.items[k]) : k \in DOMAIN node.items}

Requested == Leaves(PList(result.positions))

InRange(p) == 0 <= p /\ p < video.frame_count

\* C10: get_frames(L) on in-range positions returns exactly one frame per unique
\* position, in ascending position order whatever the order and nesting of L:
\* the returned positions are sorted(set(flatten(L))).  (A read the decoder fails
\* raises instead of returning.)
C10_GetFramesSortedUnique ==
    result.op = "get_frames" =>
        /\ result.exc = "none" =>
              LET frames == result.value
              IN  /\ {frames[k].position : k \in DOMAIN frames} = Requested
                  /\ Len(frames) = Cardinality(Requested)
                  /\ \A k \in 1..(Len(frames) - 1) :
                        frames[k].position < frames[k + 1].position
                  /\ \A k \in DOMAIN frames : frames[k].frame = frames[k].position
        /\ (/\ video.openable
            /\ \A p \in Requested : InRange(p) /\ p \notin video.unreadable)
              => result.exc = "none"

\* a nested request with a repeated position, not in ascending order, answered
C10_Witness ==
    /\ result.op = "get_frames"
    /\ result.exc = "none"
    /\ result.positions = <<PList(<<PInt(2), PInt(0)>>), PInt(2)>>
    /\ Len(result.value) = 2

\* every step of the reader starts or ends a call, so it changes result.op
called == result.op

\* a step that is one whole call of get_frame_at_position on an idle reader
GetFrameStep == Idle /\ result'.op = "get_frame_at_position"

\* the position that call was given
AskedPosition == result'.positions[1].value

\* C11: when position p is in the cache, get_frame_at_position(p, use_cache=True)
\* returns the very object the cache holds for p, with no seek and no read, and
\* leaves the reader as it was.
C11_CacheHitSameObject ==
    [][(/\ GetFrameStep
        /\ result'.use_cache
        /\ AskedPosition \in DOMAIN reader.frame_cache)
          => /\ result'.exc = "none"
             /\ result'.value = reader.frame_cache[AskedPosition]
             /\ result'.log.seeks = 0
             /\ result'.log.reads = 0
             /\ reader' = reader]_called

C11_Witness ==
    /\ result.op = "get_frame_at_position"
    /\ result.use_cache
    /\ result.exc = "none"
    /\ result.log = NoLog
    /\ result.positions[1].value \in DOMAIN reader.frame_cache
    /\ result.value = reader.frame_cache[result.positions[1].value]

\* C12: get_frame_at_position(p, use_cache=False) leaves the cache exactly as it
\* was whether it returns or raises; for an in-range p of a file that opens it
\* seeks once and reads once, and the frame it returns is a new object, not the
\* one the cache holds for p.
C12_NoCacheFreshDecode ==
    [][(GetFrameStep /\ ~result'.use_cache)
          => /\ reader'.frame_cache = reader.frame_cache
             /\ (video.openable /\ InRange(AskedPosition))
                   => /\ result'.log.seeks = 1
                      /\ result'.log.reads = 1
                      /\ AskedPosition \notin video.unreadable => result'.exc = "none"
                      /\ result'.exc = "none"
                            => /\ result'.value.position = AskedPosition
                               /\ result'.value.frame = AskedPosition
                               /\ AskedPosition \in DOMAIN reader.frame_cache
                                     => result'.value
                                            # reader.frame_cache[AskedPosition]]_called

C12_Witness ==
    /\ result.op = "get_frame_at_position"
    /\ ~result.use_cache
    /\ result.exc = "none"
    /\ result.log.seeks = 1
    /\ result.log.reads = 1
    /\ result.positions[1].value \in DOMAIN reader.frame_cache
    /\ result.value # reader.frame_cache[result.positions[1].value]

\* C15: on a file that opens, get_frame_at_position(p) with p < 0 or
\* p >= total_frames raises ValueError whatever use_cache and the cache are,
\* makes no seek and no read, and leaves the cache as it was.
C15_OutOfRangeValueError ==
    [][(GetFrameStep /\ video.openable /\ ~InRange(AskedPosition))
          => /\ result'.exc = "ValueError"
             /\ result'.log.seeks = 0
             /\ result'.log.reads = 0
             /\ reader'.frame_cache = reader.frame_cache]_called

C15_Witness ==
    /\ result.op = "get_frame_at_position"
    /\ result.exc = "ValueError"
    /\ result.positions[1].value = video.frame_count
    /\ result.use_cache
    /\ reader.frame_cache # <<>>
    /\ result.log.seeks = 0

\* C16: when the read fails at an in-range, uncached position p, the call raises
\* RuntimeError after exactly one seek and one read, the cache is as it was (no
\* entry for p, the others untouched) and the reader holds its open capture.
C16_ReadFailureRuntimeError ==
    [][(/\ GetFrameStep
        /\ video.openable
        /\ InRange(AskedPosition)
        /\ AskedPosition \in video.unreadable
        /\ AskedPosition \notin DOMAIN reader.frame_cache)
          => /\ result'.exc = "RuntimeError"
             /\ result'.log.seeks = 1
             /\ result'.log.reads = 1
             /\ reader'.frame_cache = reader.frame_cache
             /\ AskedPosition \notin DOMAIN reader'.frame_cache
             /\ reader'.cap = "opened"]_called

C16_Witness ==
    /\ result.op = "get_frame_at_position"
    /\ result.exc = "RuntimeError"
    /\ result.positions[1].value \in video.unreadable
    /\ result.log.reads = 1
    /\ reader.frame_cache # <<>>
    /\ reader.cap = "opened"

\* a step that is one whole call of open() on an idle reader
OpenStep == Idle /\ result'.op = "open"

\* C17: open() on a reader with no capture and a file that opens constructs one
\* capture and sets total_frames and fps from it; open() on a reader whose
\* capture is open constructs none and changes nothing (metadata, cache).
C17_OpenIdempotent ==
    [][OpenStep
          => /\ (reader.cap = "None" /\ video.openable)
                   => /\ result'.exc = "none"
                      /\ result'.log.acquired = 1
                      /\ reader'.cap = "opened"
                      /\ reader'.total_frames = video.frame_count
                      /\ reader'.fps = FPS
                      /\ reader'.frame_cache = reader.frame_cache
             /\ reader.cap = "opened"
                   => /\ result'.exc = "none"
                      /\ result'.log.acquired = 0
                      /\ reader' = reader]_called

C17_Witness ==
    /\ result.op = "open"
    /\ result.exc = "none"
    /\ result.log.acquired = 0
    /\ reader.cap = "opened"
    /\ reader.frame_cache # <<>>

\* a step that is one whole call of close() on an idle reader
CloseStep == Idle /\ result'.op = "close"

\* C18: close() never raises and leaves the reader with no capture and an empty
\* cache from every state; it releases the capture it held, and on a reader that
\* holds none it releases nothing and changes nothing.
C18_CloseIdempotent ==
    [][CloseStep
          => /\ result'.exc = "none"
             /\ reader'.cap = "None"
             /\ reader'.frame_cache = <<>>
             /\ result'.log.released = (IF reader.cap = "None" THEN 0 ELSE 1)
             /\ (reader.cap = "None" /\ reader.frame_cache = <<>>)
                   => reader' = reader]_called

C18_Witness ==
    /\ result.op = "close"
    /\ result.exc = "none"
    /\ result.log.released = 1
    /\ reader.total_frames # None
    /\ reader.cap = "None"
    /\ reader.frame_cache = <<>>

\* a step that is one whole call of get_frames_from_ranges on an idle reader
RangesStep == Idle /\ result'.op = "get_frames_from_ranges"

\* the same ranges with the two endpoints of every pair exchanged
Swapped(position_ranges) ==
    [k \in DOMAIN position_ranges |->
        PList(<<position_ranges[k].items[2], position_ranges[k].items[1]>>)]

\* min, min + step, ... up to max, for every pair
ExpandedRanges(position_ranges, step) ==
    UNION {LET a == position_ranges[k].items[1].value
               b == position_ranges[k].items[2].value
           IN  {p \in Min(a, b)..Max(a, b) : (p - Min(a, b)) % step = 0} :
           k \in DOMAIN position_ranges}

\* C13: get_frames_from_ranges on in-range pairs and step >= 1 returns one frame
\* per position of min, min + step, ... <= max over all pairs, in strictly
\* ascending position order, and the call with every pair's endpoints exchanged
\* has the same outcome.
C13_RangesExpandSortedUnique ==
    [][RangesStep
          => LET ranges == result'.positions
                 step == result'.arg
                 positions == ExpandedRanges(ranges, step)
                 frames == result'.value
                 swapped == get_frames_from_ranges(reader, Swapped(ranges), step,
                                                   result'.use_cache)
             IN  /\ result'.exc = "none"
                       => /\ {frames[k].position : k \in DOMAIN frames} = positions
                          /\ Len(frames) = Cardinality(positions)
                          /\ \A k \in 1..(Len(frames) - 1) :
                                frames[k].position < frames[k + 1].position
                          /\ \A k \in DOMAIN frames : frames[k].frame = frames[k].position
                 /\ (/\ video.openable
                     /\ \A p \in positions : InRange(p) /\ p \notin video.unreadable)
                       => result'.exc = "none"
                 /\ swapped.exc = result'.exc
                 /\ result'.exc = "none" => swapped.value = frames
                 /\ After(swapped) = reader']_called

C13_Witness ==
    /\ result.op = "get_frames_from_ranges"
    /\ result.exc = "none"
    /\ result.positions = <<PList(<<PInt(2), PInt(0)>>), PList(<<PInt(1), PInt(2)>>)>>
    /\ result.arg = 2
    /\ Len(result.value) = 3

\* the centers of a get_frames_around_positions call
Centers == {result.positions[k].value : k \in DOMAIN result.positions}

\* window_size // 2 below and above the center, cut to the file
WindowAround(p, window_size) ==
    Max(0, p - window_size \div 2)..Min(video.frame_count - 1, p + window_size \div 2)

\* the window of a center is not cut at either end of the file
Unclamped(p, window_size) ==
    0 <= p - window_size \div 2 /\ p + window_size \div 2 <= video.frame_count - 1

\* what get_frames_around_positions returns for in-range centers: one frame per
\* position of the union of the windows, in strictly ascending position order
AroundSortedUnique ==
    (/\ result.op = "get_frames_around_positions"
     /\ video.openable
     /\ \A p \in Centers : InRange(p))
       => LET positions == UNION {WindowAround(p, result.arg) : p \in Centers}
              frames == result.value
          IN  /\ result.exc = "none"
                    => /\ {frames[k].position : k \in DOMAIN frames} = positions
                       /\ Len(frames) = Cardinality(positions)
                       /\ \A k \in 1..(Len(frames) - 1) :
                             frames[k].position < frames[k + 1].position
              /\ (\A p \in positions : p \notin video.unreadable) => result.exc = "none"

\* a single in-range center whose window is not cut gives 2 * (window_size // 2) + 1
\* frames
AroundWindowLength ==
    (/\ result.op = "get_frames_around_positions"
     /\ result.exc = "none"
     /\ Len(result.positions) = 1
     /\ \A p \in Centers : InRange(p) /\ Unclamped(p, result.arg))
       => Len(result.value) = 2 * (result.arg \div 2) + 1

\* C14: get_frames_around_positions on in-range centers returns the sorted,
\* deduplicated union of the windows of window_size // 2 positions below and above
\* each center, cut to [0, total_frames - 1], and a center whose window is not cut
\* contributes exactly window_size positions.
C14_WindowOfWindowSize ==
    /\ AroundSortedUnique
    /\ (/\ result.op = "get_frames_around_positions"
        /\ result.exc = "none"
        /\ Len(result.positions) = 1
        /\ \A p \in Centers : InRange(p) /\ Unclamped(p, result.arg))
          => Len(result.value) = result.arg

\* the with statement was left through __exit__: the capture is released and the
\* cache is empty, whether the body returned or raised
ScopeExitCloses ==
    (pc = "left" /\ result.op = "exit")
       => reader.cap = "None" /\ reader.frame_cache = <<>>

ScopeExitCloses_Witness ==
    /\ pc = "left"
    /\ result.op = "exit"
    /\ result.exc = "RuntimeError"
    /\ result.log.released = 1
    /\ reader.cap = "None"

\* C19: after the with statement is left, by the body returning, by an exception
\* raised in the body or by an exception raised while entering, the reader holds
\* no capture and its cache is empty.
C19_ScopeLeftClosed ==
    pc = "left" => reader.cap = "None" /\ reader.frame_cache = <<>>

\* a step that is one read of the total_frames or of the fps property
QueryStep == Idle /\ result'.op \in {"total_frames", "fps"}

\* the value the file gives for the property read
Metadata(op) == IF op = "total_frames" THEN video.frame_count ELSE FPS

\* C20 as stated: after total_frames or fps is read on a file that opens, the
\* reader holds an open capture, and the value is the file's.
C20_QueryOpens_Stated ==
    (result.op \in {"total_frames", "fps"} /\ video.openable)
       => /\ reader.cap = "opened"
          /\ result.exc = "none"
          /\ result.value = Metadata(result.op)

\* C20: on a file that opens, reading total_frames or fps always returns the
\* file's value.  While the reader has never opened the file the read opens it;
\* once the values are set, also after close(), the read opens nothing and
\* leaves the reader as it is, closed if it was closed.
C20_QueryOpensOnce ==
    [][(QueryStep /\ video.openable)
          => /\ result'.exc = "none"
             /\ result'.value = Metadata(result'.op)
             /\ reader.total_frames = None
                   => /\ reader.cap = "None"
                      /\ reader'.cap = "opened"
                      /\ result'.log.acquired = 1
             /\ reader.total_frames # None
                   => /\ reader' = reader
                      /\ result'.log.acquired = 0]_called

C20_Witness ==
    /\ result.op = "total_frames"
    /\ result.exc = "none"
    /\ result.value = video.frame_count
    /\ result.log.acquired = 0
    /\ reader.cap = "None"

\* the window a __getitem__ call was made for
ItemWindow == result.positions

\* C21: a window that generation emitted, handed by __getitem__ to get_frames on
\* the file of its video (as many frames as the record's total_frames), is never
\* answered with ValueError.
C21_WindowsNeverOutOfRange ==
    result.op = "getitem" => result.exc # "ValueError"

\* what holds instead: ValueError exactly for the windows that start below 0,
\* which are the windows of videos shorter than sequence_length
GetItemValueErrorOnlyShortVideo ==
    result.op = "getitem"
       => (result.exc = "ValueError"
              <=> video.frame_count < sequence_length)

\* the window of a __getitem__ call lies within the file of its video
ItemWithinVideo == \A k \in DOMAIN ItemWindow : InRange(ItemWindow[k].value)

\* C26: for an index whose window lies within the video, __getitem__ returns
\* sequence_length frames and sequence_length labels, the k-th frame holds the
\* pixels of position frame_positions[k], and the k-th label is the label of
\* that same position.
C26_ItemPairsFramesWithLabels ==
    (result.op = "getitem" /\ ItemWithinVideo)
       => LET frames == result.value
              frame_positions == sequences[labelled.idx].frame_positions
              boundary == BoundaryOf(sequences[labelled.idx])
          IN  /\ result.exc = "none"
              /\ labelled.state = "done"
              /\ Ints(frame_positions) = ItemWindow
              /\ Len(frames) = sequence_length
              /\ Len(labelled.labels) = sequence_length
              /\ \A k \in 1..sequence_length :
                    /\ frames[k] = preprocess_frame(frame_positions[k])
                    /\ labelled.labels[k]
                          = LabelOf(frame_positions[k], boundary.from, boundary.to)

C26_Witness ==
    /\ result.op = "getitem"
    /\ result.exc = "none"
    /\ sequence_length = 3
    /\ random_offset_range = 1
    /\ Len(result.value) = 3
    /\ result.value[1].rgb + 2 = result.value[3].rgb
    /\ labelled.labels = <<0, 1, 2>>

\* the calls of one worker made again, alone, on a new instance: TRUE when every
\* call has the outcome recorded and the instance ends as `final`
RECURSIVE RunsAlone(_, _, _)
RunsAlone(r, calls, final) ==
    IF calls = <<>> THEN r = final
    ELSE LET c == Head(calls)
             o == Apply(r, [op |-> c.op, position |-> c.positions[1].value,
                            use_cache |-> c.use_cache])
         IN  /\ o.exc = c.exc
             /\ o.reader.log = c.log
             /\ c.op = "get_frame_at_position" /\ c.exc = "none" => o.value = c.value
             /\ RunsAlone(After(o), Tail(calls), final)

\* C22: however the calls of two workers interleave, each on its own instance,
\* every call has the outcome, and every instance ends in the state (capture,
\* metadata, cache), that the worker's calls have when it runs alone.
C22_InstancesIndependent ==
    \A w \in DOMAIN workers :
        RunsAlone(NewReader, workers[w].calls, workers[w].reader)

C22_Witness ==
    /\ DOMAIN workers = 1..2
    /\ Len(workers[1].calls) = 2
    /\ Len(workers[2].calls) = 2
    /\ workers[1].calls[2].op = "close"
    /\ workers[1].reader.frame_cache = <<>>
    /\ 0 \in DOMAIN workers[2].reader.frame_cache
    /\ workers[2].calls[2].log.reads = 0

\* with one worker at a time the pixels are those of the position asked for: a
\* call reads the pixels of another position, or fails to read a decodable one,
\* only when another worker's seek or read came between its seek and its read;
\* and every cache entry is filed under the position it carries
MismatchOnlyWhenInterrupted ==
    /\ \A w \in DOMAIN workers :
          (/\ workers[w].pc = "finish"
           /\ \/ ~workers[w].ret /\ workers[w].position \notin video.unreadable
              \/ workers[w].ret /\ workers[w].frame # workers[w].position)
             => workers[w].interrupted
    /\ \A p \in DOMAIN reader.frame_cache : reader.frame_cache[p].position = p

\* C23: two workers interleaving get_frame_at_position on one instance reach a
\* state where a frame returned for position p and cached under p holds the
\* pixels of another position; this happens only to a call whose seek and read
\* were separated by the other worker's seek or read.
C23_SharedInstanceUnsafe ==
    /\ MismatchOnlyWhenInterrupted
    /\ \A w \in DOMAIN workers :
          (workers[w].pc = "finish" /\ ~workers[w].interrupted)
             => (workers[w].ret <=> workers[w].position \notin video.unreadable)

C23_Witness ==
    \E w \in DOMAIN workers :
        LET p == workers[w].position
        IN  /\ workers[w].pc = "idle"
            /\ workers[w].interrupted
            /\ workers[w].exc = "none"
            /\ workers[w].returned.position = p
            /\ workers[w].returned.frame # p
            /\ p \in DOMAIN reader.frame_cache
            /\ reader.frame_cache[p] = workers[w].returned
            /\ \E v \in DOMAIN workers : v # w /\ workers[v].position # p

\* what holds of a file the decoder cannot open: the first open() raises
\* RuntimeError and total_frames and fps are never set
OpenFailsOnFirstCall ==
    [][(OpenStep /\ ~video.openable)
          => /\ reader.cap = "None" => result'.exc = "RuntimeError"
             /\ reader'.total_frames = None
             /\ reader'.fps = None]_called

\* C24: on a file the decoder cannot open every open() raises RuntimeError, the
\* reader keeps no capture and no metadata, and every later open() or frame
\* request raises RuntimeError again.
C24_FailedOpenLeavesClosed ==
    ~video.openable
       => /\ reader.cap = "None"
          /\ reader.total_frames = None
          /\ reader.fps = None
          /\ result.op \in {"open", "get_frame_at_position", "get_frames"}
                => (result.exc = "RuntimeError"
                       \/ (result.op = "get_frames" /\ Requested = {}))

NonDecreasing(ls) == \A j, k \in 1..Len(ls) : j < k => ls[j] <= ls[k]

\* C25 as stated: some boundary with to_frame < from_frame and some contiguous
\* ascending window have a label sequence that is not non-decreasing.
C25_MalformedBreaksOrder_Stated ==
    labelled.state = "done"
       => \E fp \in PositionLists, b \in LabelBoundaries :
             /\ b.to < b.from
             /\ IsContiguous(fp)
             /\ ~NonDecreasing(get_scene_labels(fp, b))

\* C25: for a boundary with to_frame < from_frame the labels of a contiguous
\* ascending window are 0 up to from_frame and 2 after it, never 1, so the
\* sequence is non-decreasing (0* 2*).
C25_MalformedKeepsOrder ==
    (/\ labelled.state = "done"
     /\ labelled.boundary.to < labelled.boundary.from
     /\ IsContiguous(labelled.frame_positions)) =>
        LET ls == labelled.labels
            fp == labelled.frame_positions
        IN  /\ Len(ls) = Len(fp)
            /\ \A k \in 1..Len(ls) :
                  ls[k] = IF fp[k] <= labelled.boundary.from THEN 0 ELSE 2
            /\ NonDecreasing(ls)

C25_Witness ==
    /\ labelled.state = "done"
    /\ labelled.boundary.to < labelled.boundary.from
    /\ IsContiguous(labelled.frame_positions)
    /\ Len(labelled.frame_positions) = 3
    /\ labelled.frame_positions[1] = labelled.boundary.to + 1
    /\ labelled.boundary.from = labelled.boundary.to + 2
    /\ labelled.labels = <<0, 0, 2>>

-----------------------------------------------------------------------------
(* The cache between calls *)

\* every entry the cache holds before the step is there after it, the same object
CacheKept ==
    \A p \in DOMAIN reader.frame_cache :
        /\ p \in DOMAIN reader'.frame_cache
        /\ reader'.frame_cache[p] = reader.frame_cache[p]

\* C27: no call other than close() removes a cache entry or replaces the object
\* cached at a position: get_frame_at_position, get_frames, get_frames_from_ranges,
\* get_frames_around_positions, extract_frames_batch, get_video_info, open and
\* the property reads keep every entry, with or without use_cache and whether
\* they return or raise.  close() leaves the cache empty.
C27_CacheOnlyClearedByClose ==
    [][/\ result'.op # "close" => CacheKept
       /\ result'.op = "close" => reader'.frame_cache = <<>>]_called

C27_Witness ==
    /\ result.op = "get_frames"
    /\ ~result.use_cache
    /\ result.exc = "none"
    /\ Len(result.value) = 2
    /\ result.value[1].position \in DOMAIN reader.frame_cache
    /\ reader.frame_cache[result.value[1].position].id # result.value[1].id
    /\ result.value[2].position \notin DOMAIN reader.frame_cache

-----------------------------------------------------------------------------
(* Captures acquired and released *)

\* the number of captures a reader holds
Live(r) == IF r.cap = "None" THEN 0 ELSE 1

\* C28: on a file that opens, every call of every method acquires at most one
\* capture, and only when the reader holds none; only close() releases, exactly
\* the one capture held; and the captures held after the call are those held
\* before plus acquired minus released.  The reader starts with none, so
\* acquired minus released is always the number held, 0 or 1.
C28_OneCaptureAtATime ==
    [][(video.openable /\ Idle) =>
          LET log == result'.log
          IN  /\ log.acquired \in {0, 1}
              /\ log.acquired = 1 => reader.cap = "None"
              /\ log.released \in {0, 1}
              /\ log.released = 1 => result'.op = "close" /\ reader.cap = "opened"
              /\ result'.op = "close" => log.released = Live(reader) /\ Live(reader') = 0
              /\ Live(reader') = Live(reader) + log.acquired - log.released
              /\ reader'.cap \in {"None", "opened"}]_called

C28_Witness ==
    /\ video.openable
    /\ result.op = "get_video_info"
    /\ result.exc = "none"
    /\ result.log.acquired = 1
    /\ result.log.released = 0
    /\ reader.cap = "opened"
    /\ result.value.total_frames = video.frame_count

-----------------------------------------------------------------------------
(* get_frames that raises *)

\* a step that is one whole call of get_frames(positions, use_cache=True) that raises
FailedGetFramesStep ==
    /\ Idle
    /\ result'.op = "get_frames"
    /\ result'.use_cache
    /\ result'.exc # "none"

\* the positions that call was given
AskedPositions == Leaves(PList(result'.positions))

\* get_frame_at_position(p) raises on the reader as the call finds it: the file
\* does not open, p is out of range, or p is not cached and cannot be read
Fails(p) ==
    \/ ~video.openable
    \/ ~InRange(p)
    \/ p \notin DOMAIN reader.frame_cache /\ p \in video.unreadable

\* C29: a get_frames(positions, use_cache=True) that raises has stopped at the
\* smallest requested position q that fails: the cache after the call is the
\* cache before it plus every requested position below q, each holding the frame
\* of its position, and no requested position at or above q has been added.  The
\* exception is the one q raises.
C29_FailedGetFramesKeepsPrefix ==
    [][FailedGetFramesStep =>
          LET failing == {p \in AskedPositions : Fails(p)}
          IN  /\ failing # {}
              /\ LET q == CHOOSE x \in failing : \A y \in failing : x <= y
                     before == DOMAIN reader.frame_cache
                     after == DOMAIN reader'.frame_cache
                 IN  /\ after = before \cup {p \in AskedPositions : p < q}
                     /\ CacheKept
                     /\ \A p \in after \ before : reader'.frame_cache[p].frame = p
                     /\ \A p \in AskedPositions : p >= q /\ p \notin before => p \notin after
                     /\ video.openable =>
                           result'.exc = IF InRange(q) THEN "RuntimeError"
                                         ELSE "ValueError"]_called

\* frames 0 and 2 decode and 1 does not: the call has read 0, failed on 1 and
\* never asked for 2
C29_Witness ==
    /\ result.op = "get_frames"
    /\ result.use_cache
    /\ result.exc = "RuntimeError"
    /\ result.log.reads = 2
    /\ video.unreadable = {1}
    /\ Requested = {0, 1, 2}
    /\ InRange(2)
    /\ DOMAIN reader.frame_cache = {0}

-----------------------------------------------------------------------------
(* Windows of instantaneous cuts *)

\* an instantaneous cut inside its video, with an even sequence_length of at
\* least 4 that fits the video and a jitter of at most sequence_length // 2 - 2
CutInReach(T, b) ==
    /\ b.to = b.from + 1
    /\ 0 <= b.from
    /\ b.to < T
    /\ T >= sequence_length
    /\ sequence_length >= 4
    /\ sequence_length % 2 = 0
    /\ random_offset_range <= (sequence_length \div 2) - 2

\* C30: every window emitted for such a cut, clamped or not, contains from_frame
\* and to_frame, and its labels contain a 0 and a 2.
C30_CutWindowHoldsBothSides ==
    /\ \A k \in DOMAIN sequences :
          LET b == BoundaryOf(sequences[k])
              fp == sequences[k].frame_positions
          IN  CutInReach(VideoOf(sequences[k]).total_frames, b)
                 => /\ b.from \in ToSet(fp)
                    /\ b.to \in ToSet(fp)
                    /\ 0 \in ToSet(get_scene_labels(fp, b))
                    /\ 2 \in ToSet(get_scene_labels(fp, b))
    /\ (/\ labelled.state = "done"
        /\ CutInReach(VideoOf(sequences[labelled.idx]).total_frames, labelled.boundary))
          => /\ 0 \in ToSet(labelled.labels)
             /\ 2 \in ToSet(labelled.labels)

\* a jittered window of a cut at the start of the video, clamped to frame 0
C30_Witness ==
    /\ labelled.state = "done"
    /\ sequence_length = 6
    /\ random_offset_range = 1
    /\ CutInReach(VideoOf(sequences[labelled.idx]).total_frames, labelled.boundary)
    /\ labelled.boundary.from = 1
    /\ BaseStart(labelled.boundary, sequence_length) < -1
    /\ labelled.frame_positions[1] = 0
    /\ labelled.labels = <<0, 0, 2, 2, 2, 2>>

====
